---- MODULE Spec2Model ----
(***************************************************************************)
(* A model of dockertest.py: the environment snapshot manager              *)
(* (EnvironmentMixin), the service discovery (DockerDiscoveryMixin) and    *)
(* the per-test injector (TestCase), driven by the unittest life cycle.    *)
(*                                                                         *)
(* A Python str is a sequence of one-character strings, so that upper(),   *)
(* re.sub(), format() and split() are computed character by character.     *)
(* A Python dict is a function; a missing key is a key outside its DOMAIN. *)
(* None is the empty tuple and a value v that may be None is <<v>>.        *)
(***************************************************************************)
EXTENDS Integers, Sequences, FiniteSets, TLC

VARIABLES
    environ,                 \* os.environ: name -> value
    _env_cache,              \* EnvironmentMixin._env_cache: name -> None | <<value>>
    docker_client,           \* cls.docker_client: "undefined" | "client" | "None"
    connection,              \* the runtime client session: "none" | "open" | "closed"
    close_calls,             \* how often the client's close() was called
    docker_ip,               \* cls.docker_ip
    docker_compose_project,  \* cls.docker_compose_project
    docker_services,         \* cls.docker_services: key -> info
    items_order,             \* the order docker_services.items() yields its keys in
    suite,                   \* unittest's position in the class: "init" | "tests" | "done"
    test,                    \* unittest's position in the test: "idle" | "body" | "ran"
    tests_run,               \* tests started so far
    body_ops,                \* calls made by the body of the running test
    listing,                 \* what docker_client.containers() returned
    raised,                  \* the exception the last call let escape, "" for none
    last_call,               \* the method that ran last
    installs,                \* install_docker_environment() calls of the running (or last) test
    scope_env,               \* os.environ when the first name was recorded in an empty _env_cache
    test_env,                \* os.environ when the running (or last) test began
    rewritten,               \* the running (or last) test mutated a name that was recorded already
    docker_calls,            \* the calls made on the docker client so far, in order
    history                  \* what the scopes that share _env_cache have done so far

vars == <<environ, _env_cache, docker_client, connection, close_calls, docker_ip,
          docker_compose_project, docker_services, items_order, suite, test,
          tests_run, body_ops, listing, raised, last_call, installs, scope_env,
          test_env, rewritten, docker_calls, history>>

-----------------------------------------------------------------------------
(* Bounds of the model.                                                    *)

MaxTests == 2
MaxBodyOps == 2
MaxContainers == 2

\* calls made on the EnvironmentMixin by the scopes that share it
MaxCalls == 4

-----------------------------------------------------------------------------
(* Python values.                                                          *)

None == <<>>

Some(v) == <<v>>

\* a value passed to setenv: an int n or a str s
PyInt(n) == [t |-> "int", n |-> n, s |-> <<>>]

PyStr(s) == [t |-> "str", n |-> 0, s |-> s]

EmptyDict == <<>>

\* d[k] = v
DictPut(d, k, v) == [x \in (DOMAIN d) \cup {k} |-> IF x = k THEN v ELSE d[x]]

\* d.pop(k, None)
DictPop(d, k) == [x \in (DOMAIN d) \ {k} |-> d[x]]

\* d.get(k): None when k is missing
DictGet(d, k) == IF k \in DOMAIN d THEN Some(d[k]) ELSE None

\* d.setdefault(k, v): writes only when k is missing
DictSetDefault(d, k, v) == IF k \in DOMAIN d THEN d ELSE DictPut(d, k, v)

\* DictUpdate that keeps the entries d has already: first wins
DictUpdateKeepFirst(d, e) ==
    [x \in (DOMAIN d) \cup (DOMAIN e) |-> IF x \in DOMAIN d THEN d[x] ELSE e[x]]

\* d.update(e)
DictUpdate(d, e) == [x \in (DOMAIN d) \cup (DOMAIN e) |-> IF x \in DOMAIN e THEN e[x] ELSE d[x]]

LowerCase == <<"a", "b", "c", "d", "e", "f", "g", "h", "i", "j", "k", "l", "m",
               "n", "o", "p", "q", "r", "s", "t", "u", "v", "w", "x", "y", "z">>

UpperCase == <<"A", "B", "C", "D", "E", "F", "G", "H", "I", "J", "K", "L", "M",
               "N", "O", "P", "Q", "R", "S", "T", "U", "V", "W", "X", "Y", "Z">>

Digits == <<"0", "1", "2", "3", "4", "5", "6", "7", "8", "9">>

Range(s) == {s[i] : i \in DOMAIN s}

\* one character of str.upper()
UpperChar(c) ==
    IF c \in Range(LowerCase)
    THEN UpperCase[CHOOSE i \in DOMAIN LowerCase : LowerCase[i] = c]
    ELSE c

\* str.upper()
Upper(s) == [i \in DOMAIN s |-> UpperChar(s[i])]

RECURSIVE DecimalDigits(_)
\* str(n) for an int n >= 0
DecimalDigits(n) ==
    IF n < 10 THEN <<Digits[n + 1]>>
    ELSE Append(DecimalDigits(n \div 10), Digits[(n % 10) + 1])

\* str(value)
Str(value) == IF value.t = "int" THEN DecimalDigits(value.n) ELSE value.s

RECURSIVE Filter(_, _)
\* the characters of s that are in the set keep, in order
Filter(s, keep) ==
    IF s = <<>> THEN <<>>
    ELSE IF Head(s) \in keep THEN <<Head(s)>> \o Filter(Tail(s), keep)
    ELSE Filter(Tail(s), keep)


RECURSIVE Split(_, _)
\* s.split(sep) for a one-character sep: the parts between the separators
Split(s, sep) ==
    IF \A i \in DOMAIN s : s[i] # sep THEN <<s>>
    ELSE LET i == CHOOSE j \in DOMAIN s : s[j] = sep /\ \A k \in 1..(j - 1) : s[k] # sep
         IN  <<SubSeq(s, 1, i - 1)>> \o Split(SubSeq(s, i + 1, Len(s)), sep)

-----------------------------------------------------------------------------
(* EnvironmentMixin: the environment snapshot manager.  A manager state is *)
(* the pair of os.environ and _env_cache.                                  *)

Manager(env, cache) == [environ |-> env, cache |-> cache]

\* Record with the cache entry overwritten on every call: cache[name] = get(name)
RecordLast(m, name) == DictPut(m.cache, name, DictGet(m.environ, name))

\* cls._env_cache.setdefault(name, os.environ.get(name))
Record(m, name) == DictSetDefault(m.cache, name, DictGet(m.environ, name))

\* Setenv with its two statements swapped: the value is written, then recorded
SetenvWriteFirst(m, name, value) ==
    LET written == DictPut(m.environ, name, Str(value))
    IN  Manager(written, DictSetDefault(m.cache, name, DictGet(written, name)))

\* setenv(name, value)
Setenv(m, name, value) ==
    Manager(DictPut(m.environ, name, Str(value)), Record(m, name))

\* Unsetenv without the setdefault: the name is removed and not recorded
UnsetenvNoRecord(m, name) ==
    Manager(DictPop(m.environ, name), m.cache)

\* unsetenv(name)
Unsetenv(m, name) ==
    Manager(DictPop(m.environ, name), Record(m, name))

\* RestoreOne with "if value:" for "if value is not None:"
RestoreOneTruthy(env, name, value) ==
    LET popped == DictPop(env, name)
    IN  IF value # None /\ value[1] # <<>> THEN DictPut(popped, name, value[1]) ELSE popped

\* one round of tearDown's loop: pop the name, write the value back unless it is None
RestoreOne(env, name, value) ==
    LET popped == DictPop(env, name)
    IN  IF value # None THEN DictPut(popped, name, value[1]) ELSE popped

RECURSIVE RestoreAll(_, _, _)
\* tearDown's loop over the items of _env_cache that are named in todo
RestoreAll(env, cache, todo) ==
    IF todo = {} THEN env
    ELSE LET name == CHOOSE n \in todo : TRUE
         IN  RestoreAll(RestoreOne(env, name, cache[name]), cache, todo \ {name})

\* Getenv with os.environ.setdefault(name, default) for os.environ.get
GetenvSetDefault(m, name, default) ==
    LET after == IF default = None THEN m.environ
                 ELSE DictSetDefault(m.environ, name, default[1])
    IN  [value |-> DictGet(after, name), after |-> Manager(after, m.cache)]

\* getenv(name, default): os.environ.get(name, default); after is the manager
\* as the call leaves it
Getenv(m, name, default) ==
    [value |-> IF name \in DOMAIN m.environ THEN Some(m.environ[name]) ELSE default,
     after |-> m]

\* Restore without self._env_cache.clear()
RestoreKeepCache(m) ==
    Manager(RestoreAll(m.environ, m.cache, DOMAIN m.cache), m.cache)

\* tearDown(): restore every recorded name, then clear the cache
Restore(m) ==
    Manager(RestoreAll(m.environ, m.cache, DOMAIN m.cache), EmptyDict)

-----------------------------------------------------------------------------
(* DockerDiscoveryMixin: building docker_services from a container listing. *)

AlphaNumeric == Range(LowerCase) \cup Range(UpperCase) \cup Range(Digits)

\* _NAME_RE.sub('_', s): every character outside [A-Za-z0-9_] becomes '_'
NameReSub(s) == [i \in DOMAIN s |-> IF s[i] \in AlphaNumeric \cup {"_"} THEN s[i] ELSE "_"]

\* re.sub('[^A-Za-z0-9]', '', dirname)
ProjectOf(dirname) == Filter(dirname, AlphaNumeric)

ProjectLabel == "com.docker.compose.project"

ServiceLabel == "com.docker.compose.service"

\* the outcome of a call: the exception that escaped ("" for none) and the value
Returned(value) == [raised |-> "", value |-> value]

Raised(exception) == [raised |-> exception, value |-> None]

\* '{0}:{1}'.format(service_name, private_port)
ServiceKey(service_name, private_port) ==
    service_name \o <<":">> \o DecimalDigits(private_port)

\* the entry built of one port_info; reading a missing field is a KeyError
PortDetails(service_name, port_info, ip) ==
    IF {"PrivatePort", "Type", "PublicPort"} \subseteq DOMAIN port_info
    THEN Returned([key  |-> ServiceKey(service_name, port_info["PrivatePort"]),
                   info |-> [protocol     |-> port_info["Type"],
                             ip_address   |-> ip,
                             public_port  |-> port_info["PublicPort"],
                             private_port |-> port_info["PrivatePort"]]])
    ELSE Raised("KeyError")

RECURSIVE PortsLoopPartial(_, _, _, _)
\* PortsLoop with the KeyError caught inside the loop: only the port is skipped
PortsLoopPartial(service_name, ports, ip, details) ==
    IF ports = <<>> THEN Returned(details)
    ELSE LET one == PortDetails(service_name, Head(ports), ip)
         IN  IF one.raised # "" THEN PortsLoopPartial(service_name, Tail(ports), ip, details)
             ELSE PortsLoopPartial(service_name, Tail(ports), ip,
                                   DictPut(details, one.value.key, one.value.info))

RECURSIVE PortsLoop(_, _, _, _)
\* the loop over container_info['Ports'], filling the local dict details
PortsLoop(service_name, ports, ip, details) ==
    IF ports = <<>> THEN Returned(details)
    ELSE LET one == PortDetails(service_name, Head(ports), ip)
         IN  IF one.raised # "" THEN one
             ELSE PortsLoop(service_name, Tail(ports), ip,
                            DictPut(details, one.value.key, one.value.info))

\* _extract_container_details(container_info): a dict of entries, None for a
\* container of another project, or a KeyError
ExtractContainerDetails(container_info, project, ip) ==
    IF "Labels" \notin DOMAIN container_info THEN Raised("KeyError")
    ELSE LET labels == container_info["Labels"]
         IN  IF ProjectLabel \notin DOMAIN labels THEN Raised("KeyError")
             ELSE IF labels[ProjectLabel] # project
                  THEN \* the debug call reads container_info['id'] before returning
                       IF "id" \in DOMAIN container_info THEN Returned(None)
                       ELSE Raised("KeyError")
             ELSE IF ServiceLabel \notin DOMAIN labels THEN Raised("KeyError")
             ELSE LET service_name == labels[ServiceLabel]
                      service == Upper(NameReSub(service_name))  \* computed, never read
                  IN  IF "Ports" \notin DOMAIN container_info THEN Raised("KeyError")
                      ELSE PortsLoop(service_name, container_info["Ports"], ip, EmptyDict)

\* one round of setUpClass's loop: the services after container_info, or the
\* KeyError that the except clause raises itself when it reads container_info['Id']
DiscoverOne(services, container_info, project, ip) ==
    LET details == ExtractContainerDetails(container_info, project, ip)
    IN  IF details.raised = ""
        THEN IF details.value # None /\ details.value # EmptyDict
             THEN Returned(DictUpdate(services, details.value))
             ELSE Returned(services)
        ELSE IF "Id" \in DOMAIN container_info THEN Returned(services)
             ELSE [raised |-> "KeyError", value |-> services]

RECURSIVE Discover(_, _, _, _)
\* setUpClass's loop over docker_client.containers(): it ends with the first
\* exception that escapes, leaving docker_services as built so far
Discover(services, containers, project, ip) ==
    IF containers = <<>> THEN Returned(services)
    ELSE LET one == DiscoverOne(services, Head(containers), project, ip)
         IN  IF one.raised # "" THEN one
             ELSE Discover(one.value, Tail(containers), project, ip)

-----------------------------------------------------------------------------
(* TestCase: the injector.                                                 *)

\* BaseKey without the protocol.upper()
BaseKeyRawProtocol(name, private_port, protocol) ==
    Upper(name) \o <<"_", "P", "O", "R", "T", "_">> \o DecimalDigits(private_port)
        \o <<"_">> \o protocol

\* BaseKey without the private port
BaseKeyNoPort(name, private_port, protocol) ==
    Upper(name) \o <<"_", "P", "O", "R", "T", "_">> \o Upper(protocol)

\* base_key of process_docker_service
BaseKey(name, private_port, protocol) ==
    Upper(name) \o <<"_", "P", "O", "R", "T", "_">> \o DecimalDigits(private_port)
        \o <<"_">> \o Upper(protocol)

\* '{0}://{1}:{2}'.format(protocol, ip_address, public_port)
Endpoint(protocol, ip_address, public_port) ==
    protocol \o <<":", "/", "/">> \o ip_address \o <<":">> \o DecimalDigits(public_port)

SuffixAddr == <<"_", "A", "D", "D", "R">>

SuffixPort == <<"_", "P", "O", "R", "T">>

SuffixProto == <<"_", "P", "R", "O", "T", "O">>

\* process_docker_service(name, protocol, ip_address, public_port, private_port)
ProcessDockerService(m, name, info) ==
    LET base_key == BaseKey(name, info.private_port, info.protocol)
        m1 == Setenv(m, base_key,
                     PyStr(Endpoint(info.protocol, info.ip_address, info.public_port)))
        m2 == Setenv(m1, base_key \o SuffixAddr, PyStr(info.ip_address))
        m3 == Setenv(m2, base_key \o SuffixPort, PyInt(info.public_port))
    IN  Setenv(m3, base_key \o SuffixProto, PyStr(info.protocol))

RECURSIVE InstallLoop(_, _, _)
\* install_docker_environment()'s loop over docker_services.items(), in the
\* order the dict yields them; a key that does not split in two is a ValueError
InstallLoop(m, services, order) ==
    IF order = <<>> THEN Returned(m)
    ELSE LET parts == Split(Head(order), ":")
         IN  IF Len(parts) # 2 THEN [raised |-> "ValueError", value |-> m]
             ELSE InstallLoop(ProcessDockerService(m, parts[1], services[Head(order)]),
                              services, Tail(order))

\* install_docker_environment()
Install(m, services, order) == InstallLoop(m, services, order)

-----------------------------------------------------------------------------
(* DockerDiscoveryMixin.tearDownClass on the class attributes it reads.    *)

ClientState(client, conn, calls) ==
    [docker_client |-> client, connection |-> conn, close_calls |-> calls]

\* if cls.docker_client: cls.docker_client.close(); cls.docker_client = None
\* (no class defines docker_client: before _connect_to_docker has assigned it,
\* reading it is an AttributeError)
CloseClient(c) ==
    IF c.docker_client = "undefined" THEN [raised |-> "AttributeError", value |-> c]
    ELSE IF c.docker_client = "client"
         THEN Returned(ClientState("None", "closed", c.close_calls + 1))
         ELSE Returned(c)

-----------------------------------------------------------------------------
(* The inputs: directory names, the docker host, container listings, the   *)
(* starting environment and what a test body passes to setenv/unsetenv.    *)

Tcp == <<"t", "c", "p">>

Udp == <<"u", "d", "p">>

ThisDir == <<"p", "1">>

DashedDir == <<"p", "-", "1">>

Dirnames == {ThisDir, DashedDir}

Hosts == {<<"h">>}

PortInfo(type, private, public) ==
    ("Type" :> type) @@ ("PrivatePort" :> private) @@ ("PublicPort" :> public)

\* an exposed port that is not published: no PublicPort
Unpublished(type, private) == ("Type" :> type) @@ ("PrivatePort" :> private)

Labels(project, service) == (ProjectLabel :> project) @@ (ServiceLabel :> service)

Container(labels, ports) ==
    ("Id" :> <<"i">>) @@ ("Labels" :> labels) @@ ("Ports" :> ports)

Without(container_info, key) ==
    [k \in (DOMAIN container_info) \ {key} |-> container_info[k]]

CDb == Container(Labels(ThisDir, <<"d", "b">>), <<PortInfo(Tcp, 80, 8080)>>)

CDbUpper == Container(Labels(ThisDir, <<"D", "B">>), <<PortInfo(Tcp, 80, 8081)>>)

CDashed == Container(Labels(ThisDir, <<"d", "-", "b">>), <<PortInfo(Udp, 80, 8082)>>)

CDbAgain == Container(Labels(ThisDir, <<"d", "b">>), <<PortInfo(Tcp, 80, 9090)>>)

CUnpublished ==
    Container(Labels(ThisDir, <<"d", "b">>), <<PortInfo(Tcp, 81, 8181), Unpublished(Tcp, 80)>>)

\* one private port published for udp and for tcp: both ports make the key db:81
CTwoPorts ==
    Container(Labels(ThisDir, <<"d", "b">>), <<PortInfo(Udp, 81, 8182), PortInfo(Tcp, 81, 8181)>>)

COther == Container(Labels(DashedDir, <<"d", "b">>), <<PortInfo(Tcp, 80, 7070)>>)

COtherNoId == Without(COther, "Id")

COtherLowerId == ("id" :> <<"i">>) @@ COtherNoId

CNoLabels == Without(CDb, "Labels")

CNoLabelsNoId == Without(CNoLabels, "Id")

CNoProject == Container((ServiceLabel :> <<"d", "b">>), <<PortInfo(Tcp, 80, 8080)>>)

CNoService == Container((ProjectLabel :> ThisDir), <<PortInfo(Tcp, 80, 8080)>>)

Containers == {CDb, CDbUpper, CDashed, CDbAgain, CUnpublished, CTwoPorts, COther, COtherNoId,
               COtherLowerId, CNoLabels, CNoLabelsNoId, CNoProject, CNoService}

Listings == UNION {[1..n -> Containers] : n \in 0..MaxContainers}

NameX == <<"X">>

NameY == <<"Y">>

NameDbAddr == BaseKey(<<"d", "b">>, 80, Tcp) \o SuffixAddr

InitialEnvirons ==
    { (NameX :> <<>>),
      (NameX :> <<"a">>) @@ (NameDbAddr :> <<"o", "l", "d">>) }

BodyNames == {NameX, NameY, NameDbAddr}

BodyValues == {PyStr(<<>>), PyStr(<<"b">>), PyInt(7)}

\* the orders a dict may yield the keys of services in
Orders(services) ==
    {o \in [1..Cardinality(DOMAIN services) -> DOMAIN services] :
        \A i, j \in DOMAIN o : i # j => o[i] # o[j]}

-----------------------------------------------------------------------------
(* The state machine.  unittest calls setUpClass once, then for every test *)
(* setUp, the test body and tearDown, then tearDownClass.  It calls no     *)
(* tearDown for a test whose setUp raised, and neither the tests nor       *)
(* tearDownClass of a class whose setUpClass raised.                       *)

\* the scopes that call the manager: the class in its setUpClass, and two
\* instances of the test case
SuiteScope == "cls"

Instances == {"test_a", "test_b"}

ScopeNames == {NameX, NameY}

ScopeValues == {PyStr(<<"b">>), PyInt(7)}

\* the default argument of getenv
Defaults == {None, Some(<<"d">>)}

\* the value that other code writes to os.environ[NameX]
Direct == <<"w">>

\* the history before the first call, in the environment env
NoCalls(env) ==
    [n        |-> 0,         \* calls so far
     scope    |-> "",        \* the scope that made the last call
     name     |-> <<>>,      \* the name argument of the last call
     start    |-> env,       \* os.environ before the first call
     owner    |-> EmptyDict, \* name in _env_cache -> the scope whose call recorded it
     touched  |-> {},        \* the names passed to setenv or unsetenv or written directly
     began    |-> FALSE,     \* an instance has made a call
     foreign  |-> FALSE,     \* the class has mutated or other code has written os.environ
     open     |-> {},        \* the instances that mutated and have not torn down since
     overlap  |-> FALSE,     \* two instances had mutations open at once
     torn     |-> {},        \* the instances that have torn down
     quiet    |-> "",        \* since the last tearDown: "" for a mutation or no tearDown,
                             \* "torn" for nothing, "direct" for direct writes only
     second   |-> ""]        \* the last call was a tearDown and quiet was this before it

\* the history after scope calls setenv(name, ...) or unsetenv(name)
AfterMutation(h, scope, name) ==
    [h EXCEPT !.n = @ + 1,
              !.scope = scope,
              !.name = name,
              !.owner = DictSetDefault(@, name, scope),
              !.touched = @ \cup {name},
              !.began = @ \/ scope \in Instances,
              !.foreign = @ \/ scope = SuiteScope,
              !.open = @ \cup ({scope} \cap Instances),
              !.overlap = @ \/ (scope \in Instances /\ h.open \ {scope} # {}),
              !.quiet = "",
              !.second = ""]

\* the history after scope calls getenv(name)
AfterGetenv(h, scope, name) ==
    [h EXCEPT !.n = @ + 1, !.scope = scope, !.name = name,
              !.began = @ \/ scope \in Instances, !.second = ""]

\* the history after the instance scope calls tearDown()
AfterTearDown(h, scope) ==
    [h EXCEPT !.n = @ + 1,
              !.scope = scope,
              !.name = <<>>,
              !.owner = EmptyDict,
              !.began = TRUE,
              !.open = {},
              !.torn = @ \cup {scope},
              !.second = h.quiet,
              !.quiet = "torn"]

\* the history after other code writes os.environ[name]
AfterDirect(h, name) ==
    [h EXCEPT !.n = @ + 1,
              !.scope = "",
              !.name = name,
              !.touched = @ \cup {name},
              !.foreign = TRUE,
              !.quiet = IF @ = "" THEN "" ELSE "direct",
              !.second = ""]

\* SetUpClassCalls with the containers listed before the client is made
SetUpClassCallsListFirst(outcome) ==
    IF outcome = "DockerException" THEN <<>>
    ELSE <<"containers", "Client">> \o (IF outcome = "" THEN <<"discovered">> ELSE <<>>)

\* the calls setUpClass makes on docker, by the exception it lets escape:
\* docker.Client(), then docker_client.containers(), then the loop to its end
SetUpClassCalls(outcome) ==
    IF outcome = "DockerException" THEN <<>>
    ELSE <<"Client", "containers">> \o (IF outcome = "" THEN <<"discovered">> ELSE <<>>)

\* ServicesAfterInstall with a loop that takes the items out: popitem()
ServicesAfterInstallConsumed(services) == EmptyDict

\* docker_services after install_docker_environment(): the loop reads items()
ServicesAfterInstall(services) == services

Init ==
    /\ environ \in InitialEnvirons
    /\ _env_cache = EmptyDict
    /\ docker_client = "undefined"
    /\ connection = "none"
    /\ close_calls = 0
    /\ docker_ip = <<>>
    /\ docker_compose_project = <<>>
    /\ docker_services = EmptyDict
    /\ items_order = <<>>
    /\ suite = "init"
    /\ test = "idle"
    /\ tests_run = 0
    /\ body_ops = 0
    /\ listing = <<>>
    /\ raised = ""
    /\ last_call = ""
    /\ installs = 0
    /\ scope_env = environ
    /\ test_env = environ
    /\ rewritten = FALSE
    /\ docker_calls = <<>>
    /\ history = NoCalls(environ)

\* os.environ as it was when the current recording began
ScopeEnvNext == IF _env_cache = EmptyDict THEN environ ELSE scope_env

\* DockerDiscoveryMixin.setUpClass; the docker calls may fail
SetUpClass ==
    /\ suite = "init"
    /\ \E dirname \in Dirnames :
         /\ docker_compose_project' = ProjectOf(dirname)
         /\ \/ \* docker.utils.kwargs_from_env() or docker.Client() raises
               /\ raised' = "DockerException"
               /\ docker_services' = EmptyDict
               /\ items_order' = <<>>
               /\ listing' = <<>>
               /\ UNCHANGED <<docker_client, connection, docker_ip>>
            \/ \E host \in Hosts :
                 /\ docker_client' = "client"
                 /\ connection' = "open"
                 /\ docker_ip' = host
                 /\ \/ \* docker_client.containers() raises
                       /\ raised' = "APIError"
                       /\ docker_services' = EmptyDict
                       /\ items_order' = <<>>
                       /\ listing' = <<>>
                    \/ \E containers \in Listings :
                         LET found == Discover(EmptyDict, containers,
                                               ProjectOf(dirname), host)
                         IN  /\ listing' = containers
                             /\ docker_services' = found.value
                             /\ items_order' \in Orders(found.value)
                             /\ raised' = found.raised
    /\ suite' = IF raised' = "" THEN "tests" ELSE "done"
    /\ last_call' = "setUpClass"
    /\ docker_calls' = SetUpClassCalls(raised')
    /\ UNCHANGED <<history, environ, _env_cache, close_calls, test, tests_run, body_ops,
                   installs, scope_env, test_env, rewritten>>

\* TestCase.setUp: install, then the rest of the setUp chain, which may raise
SetUp ==
    /\ suite = "tests"
    /\ test = "idle"
    /\ tests_run < MaxTests
    /\ LET done == Install(Manager(environ, _env_cache), docker_services, items_order)
       IN  /\ environ' = done.value.environ
           /\ _env_cache' = done.value.cache
           /\ \E chain_raises \in BOOLEAN :
                raised' = IF done.raised # "" THEN done.raised
                          ELSE IF chain_raises THEN "Exception" ELSE ""
    /\ test' = IF raised' = "" THEN "body" ELSE "idle"
    /\ tests_run' = tests_run + 1
    /\ body_ops' = 0
    /\ installs' = 1
    /\ scope_env' = ScopeEnvNext
    /\ test_env' = environ
    /\ rewritten' = FALSE
    /\ listing' = <<>>
    /\ last_call' = "setUp"
    /\ docker_services' = ServicesAfterInstall(docker_services)
    /\ UNCHANGED <<docker_client, connection, close_calls, docker_ip,
                   docker_compose_project, items_order, suite, docker_calls, history>>

InBody ==
    /\ suite = "tests"
    /\ test = "body"
    /\ body_ops < MaxBodyOps
    /\ body_ops' = body_ops + 1
    /\ raised' = ""
    /\ scope_env' = ScopeEnvNext
    /\ UNCHANGED <<docker_client, connection, close_calls, docker_ip,
                   docker_compose_project, items_order, suite,
                   test, tests_run, listing, test_env, docker_calls, history>>

\* the test body calls setenv(name, value)
BodySetenv ==
    /\ InBody
    /\ \E name \in BodyNames, value \in BodyValues :
         LET done == Setenv(Manager(environ, _env_cache), name, value)
         IN  /\ environ' = done.environ
             /\ _env_cache' = done.cache
             /\ rewritten' = (rewritten \/ name \in DOMAIN _env_cache)
    /\ last_call' = "setenv"
    /\ UNCHANGED <<installs, docker_services>>

\* the test body calls unsetenv(name)
BodyUnsetenv ==
    /\ InBody
    /\ \E name \in BodyNames :
         LET done == Unsetenv(Manager(environ, _env_cache), name)
         IN  /\ environ' = done.environ
             /\ _env_cache' = done.cache
             /\ rewritten' = (rewritten \/ name \in DOMAIN _env_cache)
    /\ last_call' = "unsetenv"
    /\ UNCHANGED <<installs, docker_services>>

\* the test body calls install_docker_environment() again
BodyInstall ==
    /\ InBody
    /\ LET done == Install(Manager(environ, _env_cache), docker_services, items_order)
       IN  /\ environ' = done.value.environ
           /\ _env_cache' = done.value.cache
    /\ installs' = installs + 1
    /\ docker_services' = ServicesAfterInstall(docker_services)
    /\ last_call' = "install_docker_environment"
    /\ UNCHANGED rewritten

\* the test body returns or raises
BodyEnds ==
    /\ suite = "tests"
    /\ test = "body"
    /\ test' = "ran"
    /\ raised' \in {"", "AssertionError"}
    /\ last_call' = "test"
    /\ UNCHANGED <<environ, _env_cache, docker_client, connection, close_calls,
                   docker_ip, docker_compose_project, docker_services, items_order,
                   suite, tests_run, body_ops, listing, installs, scope_env, test_env,
                   rewritten, docker_calls, history>>

\* EnvironmentMixin.tearDown, which unittest calls after the body of a test
\* whose setUp returned
TearDown ==
    /\ suite = "tests"
    /\ test = "ran"
    /\ LET done == Restore(Manager(environ, _env_cache))
       IN  /\ environ' = done.environ
           /\ _env_cache' = done.cache
    /\ test' = "idle"
    /\ raised' = ""
    /\ last_call' = "tearDown"
    /\ UNCHANGED <<docker_client, connection, close_calls, docker_ip,
                   docker_compose_project, docker_services, items_order, suite,
                   tests_run, body_ops, installs, listing, scope_env, test_env, rewritten,
                   docker_calls, history>>

\* what tearDownClass does to the class attributes
TearDownClassBody ==
    /\ LET done == CloseClient(ClientState(docker_client, connection, close_calls))
       IN  /\ docker_client' = done.value.docker_client
           /\ connection' = done.value.connection
           /\ close_calls' = done.value.close_calls
           /\ raised' = done.raised
           /\ docker_calls' = docker_calls \o
                  (IF done.value.close_calls > close_calls THEN <<"close">> ELSE <<>>)
    /\ last_call' = "tearDownClass"
    /\ listing' = <<>>
    /\ UNCHANGED <<history, environ, _env_cache, docker_ip, docker_compose_project,
                   docker_services, items_order, test, tests_run, body_ops,
                   installs, scope_env, test_env, rewritten>>

\* DockerDiscoveryMixin.tearDownClass, which unittest calls after the last test
\* of a class whose setUpClass returned
TearDownClass ==
    /\ suite = "tests"
    /\ test = "idle"
    /\ TearDownClassBody
    /\ suite' = "done"

\* tearDownClass called by other code than unittest, in any state of the suite
CallTearDownClass ==
    /\ TearDownClassBody
    /\ UNCHANGED suite

Next ==
    \/ SetUpClass
    \/ SetUp
    \/ BodySetenv
    \/ BodyUnsetenv
    \/ BodyInstall
    \/ BodyEnds
    \/ TearDown
    \/ TearDownClass

Spec == Init /\ [][Next]_vars

\* what a call on the manager by one of the scopes leaves alone
InScope ==
    /\ history.n < MaxCalls
    /\ UNCHANGED <<docker_client, connection, close_calls, docker_ip,
                   docker_compose_project, docker_services, items_order, suite,
                   test, tests_run, body_ops, listing, raised, installs, scope_env,
                   test_env, rewritten, docker_calls>>

\* the scopes that may mutate: the class until the first instance calls, and
\* every instance until its tearDown
Mutators ==
    {scope \in Instances : scope \notin history.torn}
        \cup (IF history.began THEN {} ELSE {SuiteScope})

\* a scope calls setenv(name, value)
ScopeSetenv ==
    /\ InScope
    /\ \E scope \in Mutators, name \in ScopeNames, value \in ScopeValues :
         LET done == Setenv(Manager(environ, _env_cache), name, value)
         IN  /\ environ' = done.environ
             /\ _env_cache' = done.cache
             /\ history' = AfterMutation(history, scope, name)
    /\ last_call' = "setenv"

\* a scope calls unsetenv(name)
ScopeUnsetenv ==
    /\ InScope
    /\ \E scope \in Mutators, name \in ScopeNames :
         LET done == Unsetenv(Manager(environ, _env_cache), name)
         IN  /\ environ' = done.environ
             /\ _env_cache' = done.cache
             /\ history' = AfterMutation(history, scope, name)
    /\ last_call' = "unsetenv"

\* an instance calls getenv(name, default)
ScopeGetenv ==
    /\ InScope
    /\ \E scope \in Instances, name \in ScopeNames, default \in Defaults :
         LET done == Getenv(Manager(environ, _env_cache), name, default)
         IN  /\ environ' = done.after.environ
             /\ _env_cache' = done.after.cache
             /\ history' = AfterGetenv(history, scope, name)
    /\ last_call' = "getenv"

\* the tearDown() of an instance
ScopeTearDown ==
    /\ InScope
    /\ \E scope \in Instances :
         LET done == Restore(Manager(environ, _env_cache))
         IN  /\ environ' = done.environ
             /\ _env_cache' = done.cache
             /\ history' = AfterTearDown(history, scope)
    /\ last_call' = "tearDown"

\* other code assigns os.environ[NameX]
DirectWrite ==
    /\ InScope
    /\ environ' = DictPut(environ, NameX, Direct)
    /\ history' = AfterDirect(history, NameX)
    /\ last_call' = "os.environ"
    /\ UNCHANGED _env_cache

NextScopes ==
    \/ ScopeSetenv
    \/ ScopeUnsetenv
    \/ ScopeGetenv
    \/ ScopeTearDown
    \/ DirectWrite

\* the calls on the EnvironmentMixin of one class, by the class and by two of
\* its instances, in any order, each call atomic
SpecScopes == Init /\ [][NextScopes]_vars

NextCalls == Next \/ CallTearDownClass

\* the unittest run, with tearDownClass also called directly at any time
SpecCalls == Init /\ [][NextCalls]_vars

-----------------------------------------------------------------------------
(* The claims.                                                             *)

\* C1: restoration round trip.  After any sequence of setenv and unsetenv
\* calls (those of install included) that began with an empty _env_cache,
\* tearDown() leaves os.environ with exactly the variables and values it had
\* when the sequence began, and leaves the cache empty.
RestorationRoundTrip ==
    last_call = "tearDown" => (environ = scope_env /\ _env_cache = EmptyDict)

\* a tearDown() after a test that installed variables, one of them set before
\* the test, and whose body mutated a recorded name again
RestorationWitness ==
    /\ last_call = "tearDown"
    /\ rewritten
    /\ body_ops >= 2
    /\ docker_services # EmptyDict
    /\ NameDbAddr \in DOMAIN environ
    /\ NameY \notin DOMAIN environ

\* C2: first write wins.  No step changes the value recorded for a name that
\* is in _env_cache already and stays in it, and a name that enters the cache
\* is recorded with the value (or absence) it had in os.environ before the
\* step that first mutated it.
FirstWriteWins ==
    [][\A name \in DOMAIN _env_cache' :
          _env_cache'[name] = IF name \in DOMAIN _env_cache
                              THEN _env_cache[name]
                              ELSE DictGet(environ, name)]_vars

\* a recorded name was mutated again and its value is no longer the recorded one
FirstWriteWitness ==
    /\ rewritten
    /\ last_call \in {"setenv", "unsetenv"}
    /\ \E name \in DOMAIN _env_cache : _env_cache[name] # DictGet(environ, name)

\* the state right after an install_docker_environment() that ran to its end
JustInstalled ==
    /\ last_call \in {"setUp", "install_docker_environment"}
    /\ raised # "ValueError"

\* the service name of an entry: its key without the ':' and the private port
ServiceNameOf(key) ==
    SubSeq(key, 1, Len(key) - Len(DecimalDigits(docker_services[key].private_port)) - 1)

\* {UPPER(NAME)}_PORT_{P}_{UPPER(proto)}, as the naming scheme states it
ClaimedBase(name, private_port, protocol) ==
    Upper(name) \o <<"_", "P", "O", "R", "T", "_">> \o DecimalDigits(private_port)
        \o <<"_">> \o Upper(protocol)

\* the four variables of the naming scheme for an entry named name
ClaimedVariables(name, info) ==
    LET base == ClaimedBase(name, info.private_port, info.protocol)
    IN  (base :> info.protocol \o <<":", "/", "/">> \o info.ip_address \o <<":">>
                    \o DecimalDigits(info.public_port))
        @@ (base \o <<"_", "A", "D", "D", "R">> :> info.ip_address)
        @@ (base \o <<"_", "P", "O", "R", "T">> :> DecimalDigits(info.public_port))
        @@ (base \o <<"_", "P", "R", "O", "T", "O">> :> info.protocol)

\* the entry at key has its four variables in os.environ, and they are the
\* only names process_docker_service writes for it
Projected(key) ==
    LET name == ServiceNameOf(key)
        info == docker_services[key]
        claimed == ClaimedVariables(name, info)
    IN  /\ \A v \in DOMAIN claimed : v \in DOMAIN environ /\ environ[v] = claimed[v]
        /\ DOMAIN (ProcessDockerService(Manager(environ, EmptyDict), name, info).cache)
              = DOMAIN claimed

AlphaNumericName(key) == Range(ServiceNameOf(key)) \subseteq AlphaNumeric

\* no other entry has the same uppercased name, private port and protocol
Unshadowed(key) ==
    \A other \in (DOMAIN docker_services) \ {key} :
        ClaimedBase(ServiceNameOf(other), docker_services[other].private_port,
                    docker_services[other].protocol)
        # ClaimedBase(ServiceNameOf(key), docker_services[key].private_port,
                      docker_services[key].protocol)

\* C3: every test that installed variables is back to Uninstalled, with
\* os.environ as it was before the test and nothing recorded, whenever unittest
\* is between two tests or after the last one, also when the setUp chain raised
\* after the install.
RestoredOnEveryExitPath ==
    (suite # "init" /\ test = "idle" /\ tests_run > 0)
        => (_env_cache = EmptyDict /\ environ = test_env)

\* C4 as stated: after install, every entry with an alphanumeric service name
\* has its four variables, named and valued by the naming scheme, and no
\* other variable is written for it.
NamingSchemeEveryEntry ==
    JustInstalled =>
        \A key \in DOMAIN docker_services : AlphaNumericName(key) => Projected(key)

\* C4 as amended: after install, every entry with an alphanumeric service
\* name, such that no other entry of docker_services has the same uppercased
\* name, private port and protocol, has its four variables, named and valued by
\* the naming scheme, and no other variable is written for it.
NamingScheme ==
    JustInstalled =>
        \A key \in DOMAIN docker_services :
            (AlphaNumericName(key) /\ Unshadowed(key)) => Projected(key)

\* an install of two entries or more, one of them alphanumeric and unshadowed,
\* over a variable that was set before
NamingWitness ==
    /\ JustInstalled
    /\ Cardinality(DOMAIN docker_services) >= 2
    /\ \E key \in DOMAIN docker_services :
          AlphaNumericName(key) /\ Unshadowed(key) /\ Projected(key)
    /\ NameDbAddr \in DOMAIN _env_cache
    /\ _env_cache[NameDbAddr] # None

SanitizedNameChars == Range(UpperCase) \cup Range(Digits) \cup {"_"}

\* C5: after install, every entry has its four variables under the sanitized
\* name (uppercased, every character outside [A-Za-z0-9_] replaced by '_'),
\* and every name the install recorded is made of [A-Z0-9_] only.
SanitizedNames ==
    JustInstalled =>
        /\ \A key \in DOMAIN docker_services :
              \A v \in DOMAIN ClaimedVariables(NameReSub(ServiceNameOf(key)),
                                               docker_services[key]) :
                  v \in DOMAIN environ
        /\ last_call = "setUp" =>
              \A v \in DOMAIN _env_cache : Range(v) \subseteq SanitizedNameChars

\* setUpClass got a listing from docker_client.containers()
Listed == last_call = "setUpClass" /\ raised \notin {"DockerException", "APIError"}

HasProjectLabel(container_info) ==
    /\ "Labels" \in DOMAIN container_info
    /\ ProjectLabel \in DOMAIN container_info["Labels"]

OfThisProject(container_info) ==
    /\ HasProjectLabel(container_info)
    /\ container_info["Labels"][ProjectLabel] = docker_compose_project

OfOtherProject(container_info) ==
    /\ HasProjectLabel(container_info)
    /\ container_info["Labels"][ProjectLabel] # docker_compose_project

\* no expected field is missing
WellFormed(container_info) ==
    /\ {"Id", "Labels", "Ports"} \subseteq DOMAIN container_info
    /\ {ProjectLabel, ServiceLabel} \subseteq DOMAIN container_info["Labels"]
    /\ \A i \in DOMAIN container_info["Ports"] :
          {"Type", "PrivatePort", "PublicPort"} \subseteq DOMAIN container_info["Ports"][i]

\* the key of a port of a container that has a service label
KeyOf(container_info, port_info) ==
    container_info["Labels"][ServiceLabel] \o <<":">> \o DecimalDigits(port_info["PrivatePort"])

\* the entry at key is that of a port of container_info, a container of this project
EntryFrom(container_info, key) ==
    /\ OfThisProject(container_info)
    /\ ServiceLabel \in DOMAIN container_info["Labels"]
    /\ "Ports" \in DOMAIN container_info
    /\ \E i \in DOMAIN container_info["Ports"] :
          LET port_info == container_info["Ports"][i]
          IN  /\ {"Type", "PrivatePort", "PublicPort"} \subseteq DOMAIN port_info
              /\ key = KeyOf(container_info, port_info)
              /\ docker_services[key].protocol = port_info["Type"]
              /\ docker_services[key].public_port = port_info["PublicPort"]
              /\ docker_services[key].private_port = port_info["PrivatePort"]

\* C6: after setUpClass, for any listing, every entry of docker_services is
\* that of a container whose project label is docker_compose_project (which
\* is alphanumeric), and a listing of well-formed containers of this project
\* and of containers of other projects does not make setUpClass raise.
ProjectFiltering ==
    Listed =>
        /\ Range(docker_compose_project) \subseteq AlphaNumeric
        /\ \A key \in DOMAIN docker_services :
              \E i \in DOMAIN listing : EntryFrom(listing[i], key)
        /\ (\A i \in DOMAIN listing :
               \/ OfOtherProject(listing[i])
               \/ OfThisProject(listing[i]) /\ WellFormed(listing[i]))
             => raised = ""

\* C7: after setUpClass, for any listing, no exception escaped and every port
\* of every well-formed container of this project has its key in
\* docker_services, whatever malformed containers are listed around it.
MalformedResilience ==
    Listed =>
        /\ raised = ""
        /\ \A i \in DOMAIN listing :
              (WellFormed(listing[i]) /\ OfThisProject(listing[i])) =>
                  \A p \in DOMAIN listing[i]["Ports"] :
                      KeyOf(listing[i], listing[i]["Ports"][p]) \in DOMAIN docker_services

\* C8: when the suite has ended, no client that _connect_to_docker created is
\* left open, also when setUpClass raised after it connected.
ConnectionReleased == suite = "done" => connection # "open"

\* C9: in every state of the suite tearDownClass() returns without an
\* exception, the client's close() has been called at most once for the one
\* connection, and nothing changes when no connection is open.
TearDownClassSafe ==
    [][TearDownClassBody =>
          /\ raised' = ""
          /\ close_calls' <= (IF connection' = "none" THEN 0 ELSE 1)
          /\ connection # "open" =>
                UNCHANGED <<docker_client, connection, close_calls>>]_vars

\* C10: an install_docker_environment() that follows another one leaves
\* os.environ as the first one left it, and the tearDown() of a test that
\* installed twice or more leaves os.environ as it was before the first install.
InstallIdempotent ==
    [][/\ (last_call \in {"setUp", "install_docker_environment"}
             /\ last_call' = "install_docker_environment")
          => environ' = environ
       /\ (test = "ran" /\ test' = "idle" /\ installs >= 2)
          => environ' = scope_env]_vars

\* the tearDown() of a test that did nothing but install twice, over a variable
\* that was set before
InstallTwiceWitness ==
    /\ last_call = "tearDown"
    /\ installs = 2
    /\ body_ops = 1
    /\ Cardinality(DOMAIN docker_services) >= 2
    /\ NameDbAddr \in DOMAIN environ
    /\ environ[NameDbAddr] = <<"o", "l", "d">>

\* a container that setUpClass does not skip: of this project, with a service
\* label and with every field of every port
NotSkipped(container_info) ==
    /\ OfThisProject(container_info)
    /\ ServiceLabel \in DOMAIN container_info["Labels"]
    /\ "Ports" \in DOMAIN container_info
    /\ \A p \in DOMAIN container_info["Ports"] :
          {"Type", "PrivatePort", "PublicPort"} \subseteq DOMAIN container_info["Ports"][p]

\* the ports <<container, port>> of the listing that make key, skipped containers left out
Producers(key) ==
    {ip \in (DOMAIN listing) \X (1..2) :
        /\ NotSkipped(listing[ip[1]])
        /\ ip[2] \in DOMAIN listing[ip[1]]["Ports"]
        /\ KeyOf(listing[ip[1]], listing[ip[1]]["Ports"][ip[2]]) = key}

\* ip is the last of the producers in listing order
LastOf(producers, ip) ==
    \A other \in producers :
        \/ other[1] < ip[1]
        \/ other[1] = ip[1] /\ other[2] <= ip[2]

\* the keys that the ports of the listing make, skipped containers left out
ProducedKeys ==
    {KeyOf(listing[i], listing[i]["Ports"][p]) :
        <<i, p>> \in {ip \in (DOMAIN listing) \X (1..2) :
                        /\ NotSkipped(listing[ip[1]])
                        /\ ip[2] \in DOMAIN listing[ip[1]]["Ports"]}}

\* C12: after a setUpClass that returned, docker_services has one entry for
\* every key that a port of a container that was not skipped makes, and the
\* entry has the attributes of the last such port in listing order.
DuplicateKeysLastWins ==
    (Listed /\ raised = "") =>
        /\ DOMAIN docker_services = ProducedKeys
        /\ \A key \in DOMAIN docker_services :
              \A ip \in Producers(key) :
                  LastOf(Producers(key), ip) =>
                      LET port_info == listing[ip[1]]["Ports"][ip[2]]
                      IN  docker_services[key] =
                              [protocol     |-> port_info["Type"],
                               ip_address   |-> docker_ip,
                               public_port  |-> port_info["PublicPort"],
                               private_port |-> port_info["PrivatePort"]]

\* a listing in which two containers make one key and the two ports of one
\* container make another
DuplicateKeysWitness ==
    /\ Listed
    /\ raised = ""
    /\ \E key \in DOMAIN docker_services :
          \E a, b \in Producers(key) : a[1] # b[1]
    /\ \E key \in DOMAIN docker_services :
          \E a, b \in Producers(key) : a[1] = b[1] /\ a[2] # b[2]

\* docker_services after the first n containers of the listing
ServicesAfter(n) ==
    Discover(EmptyDict, SubSeq(listing, 1, n), docker_compose_project, docker_ip)

\* C17: a container adds all of its port entries or none: every entry of
\* docker_services comes from a container all of whose ports could be read,
\* and a container with a port that cannot be read leaves docker_services as
\* the containers before it left it.
PerContainerAtomic ==
    Listed =>
        /\ \A key \in DOMAIN docker_services :
              \E i \in DOMAIN listing :
                  EntryFrom(listing[i], key) /\ NotSkipped(listing[i])
        /\ \A i \in DOMAIN listing :
              ServicesAfter(i - 1).raised = "" =>
                  \/ ServicesAfter(i).value = ServicesAfter(i - 1).value
                  \/ /\ NotSkipped(listing[i])
                     /\ \A p \in DOMAIN listing[i]["Ports"] :
                           KeyOf(listing[i], listing[i]["Ports"][p])
                               \in DOMAIN ServicesAfter(i).value

\* a container whose second port is not published, listed after a container
\* that added an entry, which is still there
PerContainerWitness ==
    /\ Listed
    /\ Len(listing) >= 2
    /\ listing[1] = CDb
    /\ listing[2] = CUnpublished
    /\ DOMAIN docker_services = {ServiceKey(<<"d", "b">>, 80)}
    /\ docker_services[ServiceKey(<<"d", "b">>, 80)].public_port = 8080

\* the variables that process_docker_service writes for the entry at key
VariablesOf(key) ==
    ProcessDockerService(Manager(EmptyDict, EmptyDict), ServiceNameOf(key),
                         docker_services[key]).environ

\* C18 as stated: after install, any two entries of docker_services have no
\* variable name in common and every entry has its own values in its variables.
CollisionFree ==
    JustInstalled =>
        /\ \A k1, k2 \in DOMAIN docker_services :
              k1 # k2 => (DOMAIN VariablesOf(k1)) \cap (DOMAIN VariablesOf(k2)) = {}
        /\ \A key \in DOMAIN docker_services :
              \A v \in DOMAIN VariablesOf(key) :
                  v \in DOMAIN environ /\ environ[v] = VariablesOf(key)[v]

\* the uppercased service name, the private port and the uppercased protocol
Triple(key) ==
    <<Upper(ServiceNameOf(key)), docker_services[key].private_port,
      Upper(docker_services[key].protocol)>>

\* C18 as amended: after install, two entries that differ in the uppercased
\* service name, in the private port or in the uppercased protocol have no
\* variable name in common, and every entry that shares these three with no
\* other entry has its own values in its four variables.
CollisionFreeUpToCase ==
    JustInstalled =>
        /\ \A k1, k2 \in DOMAIN docker_services :
              Triple(k1) # Triple(k2) =>
                  (DOMAIN VariablesOf(k1)) \cap (DOMAIN VariablesOf(k2)) = {}
        /\ \A key \in DOMAIN docker_services :
              (\A other \in (DOMAIN docker_services) \ {key} : Triple(other) # Triple(key))
                  => /\ Cardinality(DOMAIN VariablesOf(key)) = 4
                     /\ \A v \in DOMAIN VariablesOf(key) :
                           v \in DOMAIN environ /\ environ[v] = VariablesOf(key)[v]

\* an install of two entries of one service at two private ports, each with
\* its own values in its variables
CollisionWitness ==
    /\ JustInstalled
    /\ {ServiceKey(<<"d", "b">>, 80), ServiceKey(<<"d", "b">>, 81)}
          \subseteq DOMAIN docker_services
    /\ \E k1, k2 \in DOMAIN docker_services : k1 # k2 /\ Triple(k1) # Triple(k2)
    /\ \A v \in DOMAIN VariablesOf(ServiceKey(<<"d", "b">>, 81)) :
          v \in DOMAIN environ /\ environ[v] = VariablesOf(ServiceKey(<<"d", "b">>, 81))[v]

\* C13: once setUpClass has run, no step changes docker_services: setUp,
\* install_docker_environment, setenv, unsetenv, the test body, tearDown and
\* tearDownClass leave it as setUpClass built it.
DirectoryReadOnly ==
    [][suite # "init" => docker_services' = docker_services]_vars

\* a suite that has run all its tests, one of them with a second install, and
\* its tearDownClass, with a directory that is not empty
DirectoryReadOnlyWitness ==
    /\ suite = "done"
    /\ last_call = "tearDownClass"
    /\ tests_run = MaxTests
    /\ installs >= 2
    /\ docker_services # EmptyDict

\* the order the calls on docker are made in by a suite that runs to its end
SuiteOrder == <<"Client", "containers", "discovered", "close">>

\* C14: the calls on docker are a prefix of: connect, list the containers,
\* finish discovery, close; so the listing follows the connect and is made
\* once, the close follows the discovery, and no step of a test (setUp, the
\* body, tearDown) makes a call on docker.
SuiteOrdering ==
    /\ [](/\ Len(docker_calls) <= Len(SuiteOrder)
          /\ docker_calls = SubSeq(SuiteOrder, 1, Len(docker_calls)))
    /\ [][suite' = "tests" /\ suite = "tests" => docker_calls' = docker_calls]_vars

\* a suite that went through connect, listing, discovery, all its tests and close
SuiteOrderingWitness ==
    /\ suite = "done"
    /\ tests_run = MaxTests
    /\ docker_calls = SuiteOrder
    /\ connection = "closed"

\* C11: tearDown() leaves _env_cache empty, and a tearDown() that follows
\* a tearDown() with no setenv or unsetenv between the two, direct writes to
\* os.environ or not, changes neither os.environ nor _env_cache.
RestoreIdempotent ==
    [][last_call' = "tearDown" =>
          /\ _env_cache' = EmptyDict
          /\ history.quiet # "" => (environ' = environ /\ _env_cache' = _env_cache)]_vars

\* a second tearDown() after a direct write that followed a first tearDown()
\* of recorded names: the direct write is still there
RestoreIdempotentWitness ==
    /\ last_call = "tearDown"
    /\ history.second = "direct"
    /\ history.touched = ScopeNames
    /\ NameX \in DOMAIN environ
    /\ environ[NameX] = Direct

\* C15: a tearDown() run by one instance neither restores nor clears what
\* another scope recorded: every name in _env_cache that another scope's call
\* recorded stays in _env_cache and keeps its value in os.environ.
ScopeOwnership ==
    [][last_call' = "tearDown" =>
          \A name \in DOMAIN _env_cache :
              history.owner[name] # history'.scope =>
                  /\ name \in DOMAIN _env_cache'
                  /\ DictGet(environ', name) = DictGet(environ, name)]_vars

\* C16: once both instances have torn down, with no mutation by the class and
\* no direct write to os.environ, os.environ is what it was before the first
\* mutation and _env_cache is empty, in whatever order the calls of the two
\* instances came.
InterleavedConvergence ==
    (history.torn = Instances /\ ~history.foreign) =>
        /\ environ = history.start
        /\ _env_cache = EmptyDict

\* both instances have torn down after mutations that were open at once, one
\* of them on a name that the start environment has
InterleavedWitness ==
    /\ history.torn = Instances
    /\ ~history.foreign
    /\ history.overlap
    /\ history.touched = ScopeNames
    /\ last_call = "tearDown"

\* the names that os.environ may have
AllNames == ScopeNames \cup {NameDbAddr}

\* C19: setenv(name, v) and unsetenv(name) change no variable of os.environ
\* but name, getenv changes neither os.environ nor _env_cache, tearDown()
\* changes no variable whose name is not in _env_cache, and a variable whose
\* name was never passed to setenv or unsetenv (nor written by other code)
\* has the value it had before the first call.
ManagerFrame ==
    /\ [][/\ last_call' \in {"setenv", "unsetenv"} =>
                \A name \in AllNames \ {history'.name} :
                    DictGet(environ', name) = DictGet(environ, name)
          /\ last_call' = "getenv" =>
                (environ' = environ /\ _env_cache' = _env_cache)
          /\ last_call' = "tearDown" =>
                \A name \in AllNames \ DOMAIN _env_cache :
                    DictGet(environ', name) = DictGet(environ, name)]_vars
    /\ [](\A name \in AllNames \ history.touched :
              DictGet(environ, name) = DictGet(history.start, name))

\* all the calls made, the last a getenv of a name that is not set, both
\* names of the scopes mutated, and a variable that no call named still there
ManagerFrameWitness ==
    /\ history.n = MaxCalls
    /\ last_call = "getenv"
    /\ history.name \notin DOMAIN environ
    /\ history.touched = ScopeNames
    /\ history.torn # {}
    /\ NameDbAddr \in DOMAIN environ
    /\ environ[NameDbAddr] = history.start[NameDbAddr]

====
